---- MODULE Spec2Model ----
(***************************************************************************)
(* rolling-sampler-clone: the plugin object (src/src/lib.rs), its          *)
(* parameter cells (src/src/lib.rs, src/src/buffer_size.rs) and one frame  *)
(* of the editor (src/src/editor.rs), as a state machine.                  *)
(*                                                                         *)
(* Three contexts take steps: the audio callback (Process), the editor     *)
(* frame (the Ui* actions, one per load, store or widget of update_ui) and *)
(* the restore of the #[persist] fields from a saved plugin state          *)
(* (RestoreState).                                                         *)
(*                                                                         *)
(* Numbers: a sample is 0 (the silence value 0.0) or 1 (any other          *)
(* amplitude); seconds are counted in tenths of a second.                  *)
(***************************************************************************)
EXTENDS Integers, Sequences, FiniteSets, TLC

\* ---------------------------------------------------------------- bounds
MaxBlock == 2
MaxCapacity == 1

Samples == {0, 1}
MaxHist == MaxCapacity + 1
Blocks == UNION {[1..n -> Samples] : n \in 1..MaxBlock}

\* ------------------------------------------------------- program constants
SECONDS_MIN == 0
SECONDS_MAX == 600
DEFAULT_SECONDS == 100
NOTE_VALUES == <<
    <<1, 4>>,
    <<1, 2>>,
    <<1, 1>>,
    <<2, 1>>,
    <<4, 1>>,
    <<8, 1>> >>
NoteValueSet == {NOTE_VALUES[i] : i \in DOMAIN NOTE_VALUES}
DefaultNote == <<1, 4>>
initial_samples == << >>

\* What the user may try to drag the seconds value to (tenths of a second),
\* inside and outside SECONDS_RANGE.
DragTargets == {0 - 10, 0, 100, 600, 700}

\* Plugin states the host may hand back to the #[persist] fields.
SavedStates == {
    [unit |-> "Notes", seconds |-> 0, notes |-> <<0, 0>>,
     clear_on_play |-> TRUE, trim_silence |-> FALSE],
    [unit |-> "Seconds", seconds |-> 100, notes |-> <<1, 4>>,
     clear_on_play |-> FALSE, trim_silence |-> TRUE],
    [unit |-> "Seconds", seconds |-> 600, notes |-> <<8, 1>>,
     clear_on_play |-> TRUE, trim_silence |-> TRUE] }

NoSelection == "none"
\* What a read hands to the caller: samples, or nothing.
Some(samples) == [data |-> TRUE, samples |-> samples]
NoNewData == [data |-> FALSE, samples |-> << >>]

VARIABLES
    \* RollingSamplerCloneParams
    unit, seconds, notes, clear_on_play, trim_silence,
    \* RollingSamplerClone
    recording_buffer, buffer_size_invalidated,
    back_buffer, back_dirty, output_buffer, mutex,
    \* what leaves the plugin: clips frozen from the window, clips handed to
    \* the writer
    frozen_clips, saved_clips,
    \* the editor frame: position in update_ui, the value a picker loaded,
    \* what the last buffer.read() returned, how many reads there were
    \* (none, one, many)
    ui_pc, ui_local, last_read, reads,
    \* history of the environment: the most recent samples the host
    \* delivered, the transport state at the last callback, a click on
    \* "Clear Buffer" since the last callback, whether a callback ran while
    \* the editor held the lock
    ingested, prev_playing, clear_pending, ran_in_lock

params == <<unit, seconds, notes, clear_on_play, trim_silence>>
plugin == <<recording_buffer, buffer_size_invalidated, back_buffer,
            back_dirty, output_buffer, frozen_clips, saved_clips>>
audio_hist == <<ingested, prev_playing>>
vars == <<params, plugin, mutex, ui_pc, ui_local, last_read, reads,
          audio_hist, clear_pending, ran_in_lock>>

\* ------------------------------------------------------------- helpers
Last(s) == s[Len(s)]
LastN(s, n) == IF Len(s) <= n THEN s ELSE SubSeq(s, Len(s) - n + 1, Len(s))

\* DragValue::range(SECONDS_RANGE): the value is clamped into the range.
ClampSeconds(v) ==
    IF v < SECONDS_MIN THEN SECONDS_MIN
    ELSE IF v > SECONDS_MAX THEN SECONDS_MAX ELSE v

\* The ordered contents of the recording buffer (mono layout: channel 1).
current_window ==
    IF recording_buffer = << >> THEN << >> ELSE recording_buffer[1]

\* ---------------------------------------------------------------- Init
Init ==
    /\ unit = "Seconds"
    /\ seconds = DEFAULT_SECONDS
    /\ notes = DefaultNote
    /\ clear_on_play = FALSE
    /\ trim_silence = TRUE
    /\ recording_buffer = << >>
    /\ buffer_size_invalidated = FALSE
    /\ back_buffer = initial_samples
    /\ back_dirty = FALSE
    /\ output_buffer = initial_samples
    /\ mutex = "free"
    /\ frozen_clips = << >>
    /\ saved_clips = << >>
    /\ ui_pc = "idle"
    /\ ui_local = NoSelection
    /\ last_read = NoNewData
    /\ reads = "none"
    /\ ingested = << >>
    /\ prev_playing = FALSE
    /\ clear_pending = FALSE
    /\ ran_in_lock = FALSE

\* ------------------------------------------------------- audio callback
\* A clear trigger is due at this callback: "Clear Buffer" was clicked since
\* the last one, or the transport starts playing with clear_on_play set.
TriggerNow(playing) ==
    clear_pending \/ (clear_on_play /\ playing /\ ~prev_playing)

\* Process as it would be if the callback took the lock around the output
\* handle before doing its work.
ProcessTakingLock ==
    /\ mutex = "free"
    /\ \E block \in Blocks, playing \in BOOLEAN :
        /\ ingested' = LastN(ingested \o block, MaxHist)
        /\ prev_playing' = playing
        /\ clear_pending' = FALSE
        /\ ran_in_lock' = ran_in_lock
        /\ UNCHANGED <<params, plugin, mutex, ui_pc, ui_local, last_read, reads>>

\* Plugin::process: every frame of the block is collected into a local
\* vector that is dropped; no field of the plugin is read or written.
Process ==
    \E block \in Blocks, playing \in BOOLEAN :
        /\ ingested' = LastN(ingested \o block, MaxHist)
        /\ prev_playing' = playing
        /\ clear_pending' = FALSE
        /\ ran_in_lock' = (ran_in_lock \/ mutex = "ui")
        /\ UNCHANGED <<params, plugin, mutex, ui_pc, ui_local, last_read, reads>>

\* ----------------------------------------------------------- editor frame
\* update_ui, top_bar, buffer_size_picker: a frame starts and the picker
\* for the stored unit is chosen.
UiBufferSizePicker ==
    /\ ui_pc = "idle"
    /\ ui_pc' = IF unit = "Seconds" THEN "seconds_load" ELSE "notes_load"
    /\ UNCHANGED <<params, plugin, mutex, ui_local, last_read, reads,
                   audio_hist, clear_pending, ran_in_lock>>

\* seconds_picker: cell.load(Acquire)
UiSecondsLoad ==
    /\ ui_pc = "seconds_load"
    /\ ui_local' = seconds
    /\ ui_pc' = "seconds_store"
    /\ UNCHANGED <<params, plugin, mutex, last_read, reads,
                   audio_hist, clear_pending, ran_in_lock>>

\* seconds_picker: the DragValue edits the local (or not) and clamps it to
\* SECONDS_RANGE; cell.store(seconds, Release)
UiSecondsStore ==
    /\ ui_pc = "seconds_store"
    /\ \E target \in DragTargets \cup {ui_local} :
           seconds' = ClampSeconds(target)
    /\ ui_pc' = "unit_load"
    /\ ui_local' = NoSelection
    /\ UNCHANGED <<unit, notes, clear_on_play, trim_silence,
                   plugin, mutex, last_read, reads,
                   audio_hist, clear_pending, ran_in_lock>>

\* notes_picker: cell.load()
UiNotesLoad ==
    /\ ui_pc = "notes_load"
    /\ ui_local' = notes
    /\ ui_pc' = "notes_store"
    /\ UNCHANGED <<params, plugin, mutex, last_read, reads,
                   audio_hist, clear_pending, ran_in_lock>>

\* NotesPicked as it would be if the local started from Note::default()
\* instead of the loaded value.
NotesPickedFromDefault(loaded, clicked) ==
    IF clicked = 0 THEN <<0, 0>> ELSE NOTE_VALUES[clicked]

\* notes_picker: the value the combo box leaves in the local: an entry of
\* NOTE_VALUES if one was clicked (0: none was), the loaded value otherwise.
NotesPicked(loaded, clicked) ==
    IF clicked = 0 THEN loaded ELSE NOTE_VALUES[clicked]

\* notes_picker: selectable_value over NOTE_VALUES; cell.store(notes)
UiNotesStore ==
    /\ ui_pc = "notes_store"
    /\ \E clicked \in {0} \cup DOMAIN NOTE_VALUES :
           notes' = NotesPicked(ui_local, clicked)
    /\ ui_pc' = "unit_load"
    /\ ui_local' = NoSelection
    /\ UNCHANGED <<unit, seconds, clear_on_play, trim_silence,
                   plugin, mutex, last_read, reads,
                   audio_hist, clear_pending, ran_in_lock>>

\* buffer_size_unit_picker: cell.load()
UiUnitLoad ==
    /\ ui_pc = "unit_load"
    /\ ui_local' = unit
    /\ ui_pc' = "unit_store"
    /\ UNCHANGED <<params, plugin, mutex, last_read, reads,
                   audio_hist, clear_pending, ran_in_lock>>

\* buffer_size_unit_picker: selectable_value; cell.store(selected)
UiUnitStore ==
    /\ ui_pc = "unit_store"
    /\ \E sel \in {"Seconds", "Notes", NoSelection} :
           unit' = IF sel = NoSelection THEN ui_local ELSE sel
    /\ ui_pc' = "clear_button"
    /\ ui_local' = NoSelection
    /\ UNCHANGED <<seconds, notes, clear_on_play, trim_silence,
                   plugin, mutex, last_read, reads,
                   audio_hist, clear_pending, ran_in_lock>>

\* top_bar: ui.add(Button::new("Clear Buffer")): the button is drawn and
\* its response dropped; a click changes nothing in the program.
UiClearButton ==
    /\ ui_pc = "clear_button"
    /\ \E clicked \in BOOLEAN : clear_pending' = (clear_pending \/ clicked)
    /\ ui_pc' = "menu"
    /\ UNCHANGED <<params, plugin, mutex, ui_local, last_read, reads,
                   audio_hist, ran_in_lock>>

\* top_bar: ui.menu_button: the pickers inside run only while the menu is
\* open. (theme_picker, the first of them, loads and stores theme_type
\* exactly as buffer_size_unit_picker does unit; the colour theme is left
\* out of the state.)
UiMenuButton ==
    /\ ui_pc = "menu"
    /\ \E open \in BOOLEAN :
           ui_pc' = IF open THEN "clear_on_play_load" ELSE "wave_lock"
    /\ UNCHANGED <<params, plugin, mutex, ui_local, last_read, reads,
                   audio_hist, clear_pending, ran_in_lock>>

\* checkbox: what Checkbox::without_text leaves in the local.
Checked(loaded, clicked) == IF clicked THEN ~loaded ELSE loaded

\* checkbox("Reset on Play"): cell.load(Acquire)
UiClearOnPlayLoad ==
    /\ ui_pc = "clear_on_play_load"
    /\ ui_local' = clear_on_play
    /\ ui_pc' = "clear_on_play_store"
    /\ UNCHANGED <<params, plugin, mutex, last_read, reads,
                   audio_hist, clear_pending, ran_in_lock>>

\* checkbox("Reset on Play"): cell.store(selected, Release)
UiClearOnPlayStore ==
    /\ ui_pc = "clear_on_play_store"
    /\ \E clicked \in BOOLEAN : clear_on_play' = Checked(ui_local, clicked)
    /\ ui_pc' = "trim_silence_load"
    /\ ui_local' = NoSelection
    /\ UNCHANGED <<unit, seconds, notes, trim_silence,
                   plugin, mutex, last_read, reads,
                   audio_hist, clear_pending, ran_in_lock>>

\* checkbox("Trim Silence"): cell.load(Acquire)
UiTrimSilenceLoad ==
    /\ ui_pc = "trim_silence_load"
    /\ ui_local' = trim_silence
    /\ ui_pc' = "trim_silence_store"
    /\ UNCHANGED <<params, plugin, mutex, last_read, reads,
                   audio_hist, clear_pending, ran_in_lock>>

\* checkbox("Trim Silence"): cell.store(selected, Release)
UiTrimSilenceStore ==
    /\ ui_pc = "trim_silence_store"
    /\ \E clicked \in BOOLEAN : trim_silence' = Checked(ui_local, clicked)
    /\ ui_pc' = "wave_lock"
    /\ ui_local' = NoSelection
    /\ UNCHANGED <<unit, seconds, notes, clear_on_play,
                   plugin, mutex, last_read, reads,
                   audio_hist, clear_pending, ran_in_lock>>

\* waveform_view: state.waveform_buffer_output.lock().unwrap()
UiWaveLock ==
    /\ ui_pc = "wave_lock"
    /\ mutex = "free"
    /\ mutex' = "ui"
    /\ ran_in_lock' = FALSE
    /\ ui_pc' = "wave_read"
    /\ UNCHANGED <<params, plugin, ui_local, last_read, reads,
                   audio_hist, clear_pending>>

\* OutputRead as it would be if it handed out samples only when the
\* producer has published since the last read.
OutputReadFreshOnly == IF back_dirty THEN Some(back_buffer) ELSE NoNewData

\* triple_buffer::Output::read: take the back buffer if the producer has
\* published into it, then hand out the output buffer.
OutputRead == Some(IF back_dirty THEN back_buffer ELSE output_buffer)

\* waveform_view: buffer.read(), drawn by draw_waveform
UiWaveRead ==
    /\ ui_pc = "wave_read"
    /\ last_read' = OutputRead
    /\ output_buffer' = IF back_dirty THEN back_buffer ELSE output_buffer
    /\ back_buffer' = IF back_dirty THEN output_buffer ELSE back_buffer
    /\ back_dirty' = FALSE
    /\ reads' = IF reads = "none" THEN "one" ELSE "many"
    /\ ui_pc' = "wave_unlock"
    /\ UNCHANGED <<params, recording_buffer, buffer_size_invalidated,
                   frozen_clips, saved_clips, mutex, ui_local,
                   audio_hist, clear_pending, ran_in_lock>>

\* waveform_view: the guard is dropped at the end of the closure
UiWaveUnlock ==
    /\ ui_pc = "wave_unlock"
    /\ mutex' = "free"
    /\ ui_pc' = "idle"
    /\ UNCHANGED <<params, plugin, ui_local, last_read, reads,
                   audio_hist, clear_pending, ran_in_lock>>

\* ------------------------------------------------------- state restore
\* #[persist] / #[nested]: a saved plugin state is written back into every
\* persisted cell, from outside the editor frame.
RestoreState ==
    \E s \in SavedStates :
        /\ unit' = s.unit
        /\ seconds' = s.seconds
        /\ notes' = s.notes
        /\ clear_on_play' = s.clear_on_play
        /\ trim_silence' = s.trim_silence
        /\ UNCHANGED <<plugin, mutex, ui_pc, ui_local, last_read, reads,
                       audio_hist, clear_pending, ran_in_lock>>

\* -------------------------------------------------------- specifications
UiFrame ==
    \/ UiBufferSizePicker
    \/ UiSecondsLoad
    \/ UiSecondsStore
    \/ UiNotesLoad
    \/ UiNotesStore
    \/ UiUnitLoad
    \/ UiUnitStore
    \/ UiClearButton
    \/ UiMenuButton
    \/ UiClearOnPlayLoad
    \/ UiClearOnPlayStore
    \/ UiTrimSilenceLoad
    \/ UiTrimSilenceStore
    \/ UiWaveLock
    \/ UiWaveRead
    \/ UiWaveUnlock

Next == Process \/ UiFrame \/ RestoreState

Spec == Init /\ [][Next]_vars

\* The plugin with its default parameters and no saved state restored.
NextUi == Process \/ UiFrame

SpecUi == Init /\ [][NextUi]_vars

\* ----------------------------------------------------------------- claims
\* A callback at which a clear trigger is due.
CallbackWithTrigger == Process /\ TriggerNow(prev_playing')

\* C1: once more samples than the capacity have been ingested, the window
\* is exactly the most recent `capacity` samples, in ingestion order (for
\* every capacity up to MaxCapacity, blocks longer than it included).
C1_WindowIsMostRecent ==
    \A capacity \in 1..MaxCapacity :
        Len(ingested) > capacity =>
            current_window = LastN(ingested, capacity)

C4_TriggerFreezesOnce ==
    [][CallbackWithTrigger =>
          /\ Len(frozen_clips') = Len(frozen_clips) + 1
          /\ Len(current_window') <= MaxBlock]_vars

\* C5: a clip whose frames are all silent is never handed to the writer,
\* and a freeze of a window that holds an audible sample (the newest sample
\* before the callback and the newest after it are both non-zero) hands
\* exactly one clip to the writer.
C5_AudibleFreezeIsSaved ==
    /\ [](\A i \in DOMAIN saved_clips :
             \E j \in DOMAIN saved_clips[i] : saved_clips[i][j] # 0)
    /\ [][(/\ CallbackWithTrigger
           /\ ingested # << >>
           /\ Last(ingested) # 0
           /\ Last(ingested') # 0)
              => Len(saved_clips') = Len(saved_clips) + 1]_vars

\* C8: a store of the seconds picker that changes the stored duration while
\* the unit is seconds (the resolved capacity, seconds * sample rate, then
\* changes at every sample rate) raises the invalidated signal.
C8_CapacityChangeRaisesInvalidated ==
    [][(/\ ui_pc = "seconds_store"
        /\ ui_pc' = "unit_load"
        /\ unit = "Seconds"
        /\ unit' = unit
        /\ seconds' # seconds)
          => buffer_size_invalidated']_vars

\* C9: every configuration cell has one writing context, so no write to a
\* cell is lost to another context's load-then-store: a store of the editor
\* either leaves the cell as it found it or writes the user's edit, a value
\* other than the one it loaded.
C9_NoLostWrite ==
    [][/\ (ui_pc = "seconds_store" /\ ui_pc' = "unit_load")
            => (seconds' = seconds \/ seconds' # ui_local)
       /\ (ui_pc = "notes_store" /\ ui_pc' = "unit_load")
            => (notes' = notes \/ notes' # ui_local)
       /\ (ui_pc = "unit_store" /\ ui_pc' = "clear_button")
            => (unit' = unit \/ unit' # ui_local)
       /\ (ui_pc = "clear_on_play_store" /\ ui_pc' = "trim_silence_load")
            => (clear_on_play' = clear_on_play \/ clear_on_play' # ui_local)
       /\ (ui_pc = "trim_silence_store" /\ ui_pc' = "wave_lock")
            => (trim_silence' = trim_silence \/ trim_silence' # ui_local)]_vars

\* C10: from the default parameters, after any number of editor frames, the
\* stored note is one of the six entries of NOTE_VALUES; neither its
\* numerator nor its denominator is 0.
C10_NoteIsListed ==
    /\ notes \in NoteValueSet
    /\ notes[1] # 0
    /\ notes[2] # 0

C10_Witness ==
    /\ notes = <<8, 1>>
    /\ unit = "Notes"
    /\ ui_pc = "unit_load"

====
